---- MODULE Spec2Model ----
(***************************************************************************)
(* AuthService (src/dev/src/modules/auth/auth.service.ts): register, login *)
(* and validateUser over the entity manager's three tables (Organization,  *)
(* Users, Session).  Every request is an asynchronous task; the requests   *)
(* interleave at their await points and share nothing but the store.       *)
(***************************************************************************)
EXTENDS Integers, FiniteSets, Sequences, TLC

\* ---------------------------------------------------------------- bounds
NumCalls == 2
MaxTime == 0

Calls == 1..NumCalls
Times == 0..MaxTime
\* the values a request may carry
Emails == {"ann@x.io", "bob@x.io"}
Passwords == {"pw1", "pw2"}
OrgNames == {"acme"}
\* ids a caller may hand to validateUser: every id the store can hold, and one more
LookupIds == 1..(NumCalls + 2)

\* ------------------------------------------------------ program constants
BcryptCost == 12
SessionTtlDays == 7

Null == [null |-> TRUE]
Pending == [type |-> "pending"]

\* ------------------------------------------------------------- bcryptjs
\* bcrypt.hash(plaintext, cost): a digest of the plaintext under a random salt
BcryptDigest(password, salt, cost) == <<"bcrypt", cost, salt, password>>

BcryptHash(password, cost, salt) ==
    [cost |-> cost, salt |-> salt, digest |-> BcryptDigest(password, salt, cost)]

\* bcrypt.compare(plaintext, hash): re-digest under the hash's own salt and cost
BcryptCompare(password, hash) ==
    hash.digest = BcryptDigest(password, hash.salt, hash.cost)

\* ----------------------------------------------------------- JwtService
SignAsync(payload, options) == [payload |-> payload, options |-> options]

Decode(token) == token.payload

RegisterAccessOptions ==
    [secret |-> "process.env.AT_SECRET", expiresIn |-> "15m",
     audience |-> "spa", issuer |-> "your-app"]

RegisterRefreshOptions ==
    [secret |-> "process.env.RT_SECRET", expiresIn |-> "7d",
     audience |-> "spa", issuer |-> "your-app"]

LoginAccessOptions ==
    [secret |-> "jwtConfig.secret", expiresIn |-> "jwtConfig.signOptions.expiresIn",
     audience |-> "jwtConfig.signOptions.audience",
     issuer |-> "jwtConfig.signOptions.issuer"]

LoginRefreshOptions ==
    [secret |-> "refreshTokenConfig.secret", expiresIn |-> "refreshTokenConfig.expiresIn",
     audience |-> "jwtConfig.signOptions.audience",
     issuer |-> "jwtConfig.signOptions.issuer"]

\* register's two signAsync calls: { sub } and { sub, jti: crypto.randomUUID() }
RegisterTokens(userId, uuid) ==
    [accessToken |-> SignAsync([sub |-> userId], RegisterAccessOptions),
     refreshToken |-> SignAsync([sub |-> userId, jti |-> uuid], RegisterRefreshOptions)]

generateTokensSubjectSlip(userId, email, role) ==
    [accessToken |-> SignAsync([sub |-> userId, email |-> email, role |-> role],
                               LoginAccessOptions),
     refreshToken |-> SignAsync([sub |-> 0, email |-> email, role |-> role],
                                LoginRefreshOptions)]

generateTokens(userId, email, role) ==
    [accessToken |-> SignAsync([sub |-> userId, email |-> email, role |-> role],
                               LoginAccessOptions),
     refreshToken |-> SignAsync([sub |-> userId, email |-> email, role |-> role],
                                LoginRefreshOptions)]

\* ------------------------------------------------------- EntityManager
\* A table is the sequence of its rows in insertion order; a row's id is its
\* position, assigned by the flush that inserts it (0 = not yet persisted).
Insert(table, entity) == Append(table, [entity EXCEPT !.id = Len(table) + 1])

Min(S) == CHOOSE x \in S : \A y \in S : x <= y

\* em.findOne: the first of the rows the filter accepts, or null
FirstOf(table, ids) == IF ids = {} THEN Null ELSE table[Min(ids)]

FindOneByEmailBlind(table, email) == Null

FindOneByEmailUnfiltered(table, email) == FirstOf(table, DOMAIN table)

\* em.findOne(Users, { email })
FindOneByEmail(table, email) ==
    FirstOf(table, {i \in DOMAIN table : table[i].email = email})

FindOneActiveByIdUnfiltered(table, id) ==
    FirstOf(table, {i \in DOMAIN table : table[i].id = id})

\* em.findOne(Users, { id, isActive: true })
FindOneActiveById(table, id) ==
    FirstOf(table, {i \in DOMAIN table : table[i].id = id /\ table[i].isActive})

\* ----------------------------------------------------------- entities
NewOrganization(name, t) ==
    [id |-> 0, name |-> name, createdAt |-> t, updatedAt |-> t, userIds |-> <<>>]

NewUser(email, hash, organizationId, t) ==
    [id |-> 0, email |-> email, passwordHash |-> hash, role |-> "OWNER",
     isActive |-> TRUE, isEmailVerified |-> FALSE, createdAt |-> t, updatedAt |-> t,
     organizationId |-> organizationId, projectIds |-> <<>>]

NewSession(toks, userId, t) ==
    [id |-> 0, accessToken |-> toks.accessToken, refreshToken |-> toks.refreshToken,
     user |-> userId, expiresAt |-> t + SessionTtlDays, revoked |-> FALSE,
     createdAt |-> t]

PushUserIdSkipped(organization, userId) == organization

PushUserIdWrongId(organization, userId) ==
    [organization EXCEPT !.userIds = Append(@, organization.id)]

\* createOrganization.userIds.push(user.id)
PushUserId(organization, userId) ==
    [organization EXCEPT !.userIds = Append(@, userId)]

\* const { ...rest } = user
SpreadAll(entity) == [f \in DOMAIN entity |-> entity[f]]

\* const { passwordHash, ...rest } = user
SpreadWithoutPasswordHash(entity) ==
    [f \in DOMAIN entity \ {"passwordHash"} |-> entity[f]]

Ok(u, toks) == [type |-> "ok", user |-> u, tokens |-> toks]

Thrown(exception, message) ==
    [type |-> "throw", exception |-> exception, message |-> message]

Returned(value) == [type |-> "return", value |-> value]

\* --------------------------------------------------------------- state
VARIABLES
    orgs, users, sessions,      \* the persisted tables
    now,                        \* the wall clock new Date() reads
    pc, op, dto,                \* each call: position, operation, argument
    hashedPassword, createOrganization, user, tokens, session,  \* its locals
    result,                     \* what the call returned or threw
    compared,                   \* number of bcrypt.compare calls it made
    writes,                     \* the rows it inserted or updated
    registrations               \* registrations that ran to completion

store == <<orgs, users, sessions>>
locals == <<hashedPassword, createOrganization, user, tokens, session>>
vars == <<orgs, users, sessions, now, pc, op, dto, hashedPassword,
          createOrganization, user, tokens, session, result, compared, writes,
          registrations>>

\* The database the service is constructed over: empty, or holding one earlier
\* registration (made at time -1, before the clock's first value) whose user is
\* still active or has since been deactivated.
SeedUser(active) ==
    [NewUser("ann@x.io", BcryptHash("pw1", BcryptCost, 0), 1, -1)
        EXCEPT !.id = 1, !.isActive = active]

SeedOrganization == [PushUserId(NewOrganization("acme", -1), 1) EXCEPT !.id = 1]

SeedSession == [NewSession(RegisterTokens(1, 0), 1, -1) EXCEPT !.id = 1]

Init ==
    /\ \/ orgs = <<>> /\ users = <<>> /\ sessions = <<>>
       \/ \E active \in BOOLEAN :
            /\ orgs = <<SeedOrganization>>
            /\ users = <<SeedUser(active)>>
            /\ sessions = <<SeedSession>>
    /\ registrations = Len(sessions)
    /\ now = 0
    /\ pc = [c \in Calls |-> "idle"]
    /\ op = [c \in Calls |-> "none"]
    /\ dto = [c \in Calls |-> Null]
    /\ hashedPassword = [c \in Calls |-> Null]
    /\ createOrganization = [c \in Calls |-> Null]
    /\ user = [c \in Calls |-> Null]
    /\ tokens = [c \in Calls |-> Null]
    /\ session = [c \in Calls |-> Null]
    /\ result = [c \in Calls |-> Pending]
    /\ compared = [c \in Calls |-> 0]
    /\ writes = [c \in Calls |-> {}]

\* new Date(): every reading is later than the one before, until the clock's
\* last value MaxTime, where it stays
NewDate(t) == t = (IF now < MaxTime THEN now + 1 ELSE now) /\ now' = t

\* Calls are numbered in the order in which they arrive
Arrives(c) == pc[c] = "idle" /\ \A b \in Calls : b < c => pc[b] # "idle"

Finish(c, r) ==
    /\ pc' = [pc EXCEPT ![c] = "done"]
    /\ result' = [result EXCEPT ![c] = r]

Wrote(c, entity, kind, id) ==
    writes' = [writes EXCEPT ![c] = @ \cup {[entity |-> entity, kind |-> kind, id |-> id]}]

\* ------------------------------------------------------------ register
\* lines 34-47: the email lookup resolves; Conflict, or go on to hash
RegisterFindOne(c) ==
    /\ Arrives(c)
    /\ \E e \in Emails, p \in Passwords, n \in OrgNames :
         /\ op' = [op EXCEPT ![c] = "register"]
         /\ dto' = [dto EXCEPT ![c] = [email |-> e, password |-> p, organizationName |-> n]]
         /\ IF FindOneByEmail(users, e) # Null
              THEN Finish(c, Thrown("ConflictException",
                                    "User with this email already exists"))
              ELSE /\ pc' = [pc EXCEPT ![c] = "hash"]
                   /\ UNCHANGED result
    /\ UNCHANGED <<store, now, locals, compared, writes, registrations>>

\* lines 47-56: the hash resolves; the Organization is built in memory
RegisterHash(c) ==
    /\ pc[c] = "hash"
    /\ \E t \in Times :
         /\ NewDate(t)
         /\ createOrganization' =
              [createOrganization EXCEPT ![c] = NewOrganization(dto[c].organizationName, t)]
    /\ hashedPassword' =
         [hashedPassword EXCEPT ![c] = BcryptHash(dto[c].password, BcryptCost, c)]
    /\ pc' = [pc EXCEPT ![c] = "flushOrganization"]
    /\ UNCHANGED <<store, op, dto, user, tokens, session, result, compared, writes,
                   registrations>>

\* lines 56-71: commit #1 inserts the Organization; the User is built in memory
RegisterFlushOrganization(c) ==
    /\ pc[c] = "flushOrganization"
    /\ orgs' = Insert(orgs, createOrganization[c])
    /\ createOrganization' =
         [createOrganization EXCEPT ![c] = orgs'[Len(orgs')]]
    /\ Wrote(c, "Organization", "insert", Len(orgs'))
    /\ \E t \in Times :
         /\ NewDate(t)
         /\ user' = [user EXCEPT ![c] =
                       NewUser(dto[c].email, hashedPassword[c], Len(orgs'), t)]
    /\ pc' = [pc EXCEPT ![c] = "flushUser"]
    /\ UNCHANGED <<users, sessions, op, dto, hashedPassword, tokens, session, result,
                   compared, registrations>>

\* lines 71-79: commit #2 inserts the User; its id is pushed onto userIds
RegisterFlushUser(c) ==
    /\ pc[c] = "flushUser"
    /\ users' = Insert(users, user[c])
    /\ user' = [user EXCEPT ![c] = users'[Len(users')]]
    /\ Wrote(c, "Users", "insert", Len(users'))
    /\ createOrganization' =
         [createOrganization EXCEPT ![c] = PushUserId(@, Len(users'))]
    /\ pc' = [pc EXCEPT ![c] = "flushMembership"]
    /\ UNCHANGED <<orgs, sessions, now, op, dto, hashedPassword, tokens, session,
                   result, compared, registrations>>

\* lines 79-82: commit #3 updates the Organization's userIds
RegisterFlushMembership(c) ==
    /\ pc[c] = "flushMembership"
    /\ orgs' = [orgs EXCEPT ![createOrganization[c].id].userIds =
                              createOrganization[c].userIds]
    /\ Wrote(c, "Organization", "update", createOrganization[c].id)
    /\ pc' = [pc EXCEPT ![c] = "sign"]
    /\ UNCHANGED <<users, sessions, now, op, dto, locals, result, compared,
                   registrations>>

\* lines 82-111: both tokens are signed; the Session is built in memory
RegisterSign(c) ==
    /\ pc[c] = "sign"
    /\ tokens' = [tokens EXCEPT ![c] = RegisterTokens(user[c].id, c)]
    /\ \E t \in Times :
         /\ NewDate(t)
         /\ session' = [session EXCEPT ![c] = NewSession(tokens'[c], user[c].id, t)]
    /\ pc' = [pc EXCEPT ![c] = "flushSession"]
    /\ UNCHANGED <<store, op, dto, hashedPassword, createOrganization, user, result,
                   compared, writes, registrations>>

\* lines 111-118: commit #4 inserts the Session; the call returns
RegisterFlushSession(c) ==
    /\ pc[c] = "flushSession"
    /\ sessions' = Insert(sessions, session[c])
    /\ session' = [session EXCEPT ![c] = sessions'[Len(sessions')]]
    /\ Wrote(c, "Session", "insert", Len(sessions'))
    /\ registrations' = registrations + 1
    /\ Finish(c, Ok(SpreadAll(user[c]), tokens[c]))
    /\ UNCHANGED <<orgs, users, now, op, dto, hashedPassword, createOrganization,
                   user, tokens, compared>>

\* --------------------------------------------------------------- login
LoginCheckNoActiveTest(found) ==
    IF found = Null THEN "User not found" ELSE "ok"

\* lines 127-134: the two tests made on the lookup's result
LoginCheck(found) ==
    IF found = Null THEN "User not found"
    ELSE IF ~found.isActive THEN "User account is deactivated"
    ELSE "ok"

\* lines 121-137: the email lookup resolves; Unauthorized, or go on to compare
LoginFindOne(c) ==
    /\ Arrives(c)
    /\ \E e \in Emails, p \in Passwords :
         /\ op' = [op EXCEPT ![c] = "login"]
         /\ dto' = [dto EXCEPT ![c] = [email |-> e, password |-> p]]
         /\ LET found == FindOneByEmail(users, e) IN
              IF LoginCheck(found) # "ok"
                THEN /\ Finish(c, Thrown("UnauthorizedException", LoginCheck(found)))
                     /\ UNCHANGED user
                ELSE /\ user' = [user EXCEPT ![c] = found]
                     /\ pc' = [pc EXCEPT ![c] = "compare"]
                     /\ UNCHANGED result
    /\ UNCHANGED <<store, now, hashedPassword, createOrganization, tokens, session,
                   compared, writes, registrations>>

\* lines 137-146: bcrypt.compare resolves; Unauthorized, or go on to sign
LoginCompare(c) ==
    /\ pc[c] = "compare"
    /\ compared' = [compared EXCEPT ![c] = @ + 1]
    /\ IF ~BcryptCompare(dto[c].password, user[c].passwordHash)
         THEN Finish(c, Thrown("UnauthorizedException", "Password is incorrect"))
         ELSE /\ pc' = [pc EXCEPT ![c] = "generateTokens"]
              /\ UNCHANGED result
    /\ UNCHANGED <<store, now, op, dto, locals, writes, registrations>>

\* lines 146-150: the token pair resolves; updatedAt is set in memory
LoginGenerateTokens(c) ==
    /\ pc[c] = "generateTokens"
    /\ tokens' = [tokens EXCEPT ![c] =
                    generateTokens(user[c].id, user[c].email, user[c].role)]
    /\ \E t \in Times :
         /\ NewDate(t)
         /\ user' = [user EXCEPT ![c].updatedAt = t]
    /\ pc' = [pc EXCEPT ![c] = "flushLogin"]
    /\ UNCHANGED <<store, op, dto, hashedPassword, createOrganization, session,
                   result, compared, writes, registrations>>

LoginFlushWithSession(c) ==
    /\ pc[c] = "flushLogin"
    /\ users' = [users EXCEPT ![user[c].id].updatedAt = user[c].updatedAt]
    /\ sessions' = Insert(sessions, NewSession(tokens[c], user[c].id, now))
    /\ Wrote(c, "Users", "update", user[c].id)
    /\ Finish(c, Ok(SpreadWithoutPasswordHash(user[c]), tokens[c]))
    /\ UNCHANGED <<orgs, now, op, dto, locals, compared, registrations>>

\* lines 150-155: the flush updates the User's changed field; the call returns
LoginFlush(c) ==
    /\ pc[c] = "flushLogin"
    /\ users' = [users EXCEPT ![user[c].id].updatedAt = user[c].updatedAt]
    /\ Wrote(c, "Users", "update", user[c].id)
    /\ Finish(c, Ok(SpreadWithoutPasswordHash(user[c]), tokens[c]))
    /\ UNCHANGED <<orgs, sessions, now, op, dto, locals, compared, registrations>>

\* -------------------------------------------------------- validateUser
\* lines 220-223
ValidateUser(c) ==
    /\ Arrives(c)
    /\ \E id \in LookupIds :
         /\ op' = [op EXCEPT ![c] = "validateUser"]
         /\ dto' = [dto EXCEPT ![c] = [id |-> id]]
         /\ Finish(c, Returned(FindOneActiveById(users, id)))
    /\ UNCHANGED <<store, now, locals, compared, writes, registrations>>

\* ------------------------------------------------------------ failures
\* An awaited persistAndFlush rejects: nothing is committed, nothing is caught,
\* and the rejection leaves the call as it is, earlier commits included.
FlushPoints ==
    {"flushOrganization", "flushUser", "flushMembership", "flushSession", "flushLogin"}

FlushRejects(c) ==
    /\ pc[c] \in FlushPoints
    /\ Finish(c, Thrown("Error", "persistAndFlush rejected"))
    /\ UNCHANGED <<store, now, op, dto, locals, compared, writes, registrations>>

Next ==
    \E c \in Calls :
        \/ RegisterFindOne(c)
        \/ RegisterHash(c)
        \/ RegisterFlushOrganization(c)
        \/ RegisterFlushUser(c)
        \/ RegisterFlushMembership(c)
        \/ RegisterSign(c)
        \/ RegisterFlushSession(c)
        \/ LoginFindOne(c)
        \/ LoginCompare(c)
        \/ LoginGenerateTokens(c)
        \/ LoginFlush(c)
        \/ ValidateUser(c)
        \/ FlushRejects(c)

Spec == Init /\ [][Next]_vars

\* ============================================================== claims
EmailTaken(e) == \E i \in DOMAIN users : users[i].email = e

Conflict == Thrown("ConflictException", "User with this email already exists")

Unauthorized(message) == Thrown("UnauthorizedException", message)

IsRegister(c) == op[c] = "register"

IsLogin(c) == op[c] = "login"

Succeeded(c) == result[c].type = "ok"

Members(o) == {orgs[o].userIds[k] : k \in DOMAIN orgs[o].userIds}

Inserts(c) == {w \in writes[c] : w.kind = "insert"}

\* C1: the user object returned by every successful register and every
\* successful login has no passwordHash field.
C1_ReturnedUserHasNoPasswordHash ==
    \A c \in Calls :
        Succeeded(c) => "passwordHash" \notin DOMAIN result[c].user

\* C2: a register call whose email already belongs to a persisted User fails
\* with Conflict and leaves the Organization and User tables as they were.
C2_TakenEmailConflicts ==
    [][\A c \in Calls :
          (Arrives(c) /\ op'[c] = "register" /\ EmailTaken(dto'[c].email))
          => /\ pc'[c] = "done"
             /\ result'[c] = Conflict
             /\ orgs' = orgs
             /\ users' = users
             /\ writes'[c] = {}]_vars

C2_Witness ==
    \E c \in Calls : IsRegister(c) /\ result[c] = Conflict /\ EmailTaken(dto[c].email)

\* C3: a register call with a fresh email that ran to completion inserted
\* exactly one Organization, one User (OWNER, active, email not verified, in
\* the new Organization) and one Session (of the new User, not revoked), and
\* the new Organization's userIds holds the new User's id.
C3_RegisterCreatesOneOfEach ==
    \A c \in Calls :
        (IsRegister(c) /\ Succeeded(c)) =>
            LET o == createOrganization[c].id
                u == result[c].user.id
                s == session[c].id
            IN  /\ Inserts(c) =
                     {[entity |-> "Organization", kind |-> "insert", id |-> o],
                      [entity |-> "Users", kind |-> "insert", id |-> u],
                      [entity |-> "Session", kind |-> "insert", id |-> s]}
                /\ o \in DOMAIN orgs /\ u \in DOMAIN users /\ s \in DOMAIN sessions
                /\ users[u].email = dto[c].email
                /\ users[u].role = "OWNER"
                /\ users[u].isActive = TRUE
                /\ users[u].isEmailVerified = FALSE
                /\ users[u].organizationId = o
                /\ sessions[s].user = u
                /\ sessions[s].revoked = FALSE
                /\ u \in Members(o)

C3_Witness ==
    \E c \in Calls :
        /\ IsRegister(c) /\ Succeeded(c)
        /\ Len(orgs) > 1
        /\ result[c].user.id \in Members(createOrganization[c].id)

\* C4: a login call for an existing, inactive User fails with Unauthorized
\* ("User account is deactivated") whatever the password, without comparing
\* it, issuing tokens or writing the User.
C4_InactiveLoginUnauthorized ==
    [][\A c \in Calls :
          (/\ Arrives(c) /\ op'[c] = "login"
           /\ EmailTaken(dto'[c].email)
           /\ \A i \in DOMAIN users :
                users[i].email = dto'[c].email => ~users[i].isActive)
          => /\ pc'[c] = "done"
             /\ result'[c] = Unauthorized("User account is deactivated")
             /\ tokens'[c] = Null
             /\ compared'[c] = 0
             /\ users' = users
             /\ writes'[c] = {}]_vars

C4_Witness ==
    \E c \in Calls, i \in DOMAIN users :
        /\ IsLogin(c)
        /\ result[c] = Unauthorized("User account is deactivated")
        /\ users[i].email = dto[c].email
        /\ ~users[i].isActive
        /\ BcryptCompare(dto[c].password, users[i].passwordHash)

\* C5: a login call with an email no persisted User has fails with
\* Unauthorized ("User not found") and makes no password comparison.
C5_UnknownEmailNoCompare ==
    [][\A c \in Calls :
          (Arrives(c) /\ op'[c] = "login" /\ ~EmailTaken(dto'[c].email))
          => /\ pc'[c] = "done"
             /\ result'[c] = Unauthorized("User not found")
             /\ compared'[c] = 0]_vars

C5_Witness ==
    \E c \in Calls :
        /\ IsLogin(c)
        /\ result[c] = Unauthorized("User not found")
        /\ compared[c] = 0
        /\ users # <<>>

\* C6: a successful login (correct password, active User) returns two tokens
\* whose claims carry the same subject: the id of the User the email names.
C6_LoginTokensShareSubject ==
    \A c \in Calls :
        (IsLogin(c) /\ Succeeded(c)) =>
            LET sub == Decode(result[c].tokens.accessToken).sub IN
                /\ Decode(result[c].tokens.refreshToken).sub = sub
                /\ sub = result[c].user.id
                /\ sub \in DOMAIN users
                /\ users[sub].email = dto[c].email
                /\ users[sub].isActive
                /\ BcryptCompare(dto[c].password, users[sub].passwordHash)

C6_Witness ==
    \E c \in Calls :
        /\ IsLogin(c) /\ Succeeded(c)
        /\ Decode(result[c].tokens.refreshToken).sub = result[c].user.id
        /\ result[c].user.id > 1

\* C7: validateUser(id) returns the User with that id when there is one and it
\* is active, null otherwise; it throws nothing and writes nothing.
C7_ValidateUserNullOrActive ==
    [][\A c \in Calls :
          (Arrives(c) /\ op'[c] = "validateUser") =>
             LET id == dto'[c].id IN
                /\ pc'[c] = "done"
                /\ result'[c] =
                     Returned(IF id \in DOMAIN users /\ users[id].isActive
                                THEN users[id] ELSE Null)
                /\ store' = store
                /\ writes'[c] = {}]_vars

C7_Witness ==
    \E c \in Calls :
        /\ op[c] = "validateUser"
        /\ result[c] = Returned(Null)
        /\ dto[c].id \in DOMAIN users
        /\ ~users[dto[c].id].isActive

\* C8: no two persisted Users have the same email, in any state that
\* interleaved register calls reach.
C8_EmailUnique ==
    \A i, j \in DOMAIN users : users[i].email = users[j].email => i = j

\* C9: Sessions change only at the last flush of a register call, so there
\* are as many Sessions as completed registrations; a successful login changes
\* nothing in the store but the updatedAt of the User that logged in.
C9_SessionsOnlyFromRegister ==
    /\ [](Len(sessions) = registrations)
    /\ [][/\ sessions' # sessions =>
               \E c \in Calls :
                  /\ IsRegister(c) /\ pc[c] = "flushSession"
                  /\ result'[c].type = "ok"
                  /\ sessions' = Append(sessions, session'[c])
          /\ \A c \in Calls :
               (IsLogin(c) /\ pc[c] # "done" /\ result'[c].type = "ok") =>
                  /\ orgs' = orgs
                  /\ sessions' = sessions
                  /\ DOMAIN users' = DOMAIN users
                  /\ \A i \in DOMAIN users :
                       /\ users'[i] = [users[i] EXCEPT !.updatedAt = users'[i].updatedAt]
                       /\ i # result'[c].user.id => users'[i] = users[i]]_vars

C9_Witness ==
    \E c \in Calls :
        /\ IsLogin(c) /\ Succeeded(c)
        /\ users[result[c].user.id].updatedAt # users[result[c].user.id].createdAt
        /\ Len(sessions) = registrations

\* C10: in every state, failed and interleaved registrations included, every
\* User's organizationId names an Organization, every id in an Organization's
\* userIds names a User of that Organization, and every Session's user names
\* a User.
C10_ReferencesResolve ==
    /\ \A i \in DOMAIN users : users[i].organizationId \in DOMAIN orgs
    /\ \A o \in DOMAIN orgs : \A m \in Members(o) :
          m \in DOMAIN users /\ users[m].organizationId = o
    /\ \A s \in DOMAIN sessions : sessions[s].user \in DOMAIN users

C10_Witness ==
    \E c \in Calls, d \in Calls :
        /\ IsRegister(c) /\ result[c] = Thrown("Error", "persistAndFlush rejected")
        /\ \E w \in writes[c] : w.entity = "Users"
        /\ \A w \in writes[c] : w.kind # "update"
        /\ IsRegister(d) /\ pc[d] = "flushMembership"

====
